---- MODULE Spec2Model ----
(***************************************************************************)
(* getlatest: per-target scheduling decision (should), the fetch-and-      *)
(* atomically-replace pipeline (trydownload), consecutive-failure          *)
(* tracking (download) and the tick loop (run), from src/getlatest.go.     *)
(*                                                                         *)
(* Time is counted in clock units of 30 seconds (Minute == 2 units) since  *)
(* a Monday 00:00 local time.  Strings are sequences of one-character      *)
(* strings.  File contents and response bodies are sequences of bytes.     *)
(***************************************************************************)
EXTENDS Integers, Sequences, FiniteSets, TLC

(***************************************************************************)
(* Bounds of the model.                                                    *)
(***************************************************************************)
\* the clock runs for at most MaxElapsed units after process start
MaxElapsed == 4
\* longest response body the server sends, in bytes
MaxBody == 2
\* how far the clock runs past the start of a process with one target whose
\* server has two answers, and of a process with two targets
MaxElapsedSmall == 6
MaxElapsedTwo == 2

(***************************************************************************)
(* Durations and instants.                                                 *)
(***************************************************************************)
\* time.Minute, the ticker's period, in clock units
Minute == 2
Hour == 60 * Minute
Day == 24 * Hour

\* the largest time.Duration (1<<63 - 1 ns), in clock units
MaxDuration == 307445734
\* time.Time{}: the zero instant, further than MaxDuration before any clock value
ZeroTime == -2000000000

\* time.Time.Sub: the difference, saturated at the largest Duration
Sub(t, u) == IF t - u > MaxDuration THEN MaxDuration ELSE t - u

\* time.Time.IsZero
IsZero(t) == t = ZeroTime

(***************************************************************************)
(* Strings.                                                                *)
(***************************************************************************)
Digit == <<"0", "1", "2", "3", "4", "5", "6", "7", "8", "9">>

\* the characters the model uses, in ASCII order
Ascii ==
    <<"\t", " ", ",", "0", "1", "2", "3", "4", "5", "6", "7", "8", "9", ":",
      "A", "D", "E", "F", "H", "I", "M", "N", "O", "R", "S", "T", "U", "W",
      "a", "d", "e", "f", "h", "i", "m", "n", "o", "r", "s", "t", "u", "w", "x">>

Code(c) == CHOOSE i \in 1..Len(Ascii) : Ascii[i] = c

IsUpper(c) == Code(c) >= Code("A") /\ Code(c) <= Code("W")

\* strings.ToLower, on one character and on a string
LowerChar(c) == IF IsUpper(c) THEN Ascii[Code(c) + (Code("a") - Code("A"))] ELSE c

ToLower(s) == [i \in 1..Len(s) |-> LowerChar(s[i])]

IsSpace(c) == c \in {" ", "\t"}

\* strings.TrimSpace
RECURSIVE TrimLeft(_)
TrimLeft(s) == IF s # <<>> /\ IsSpace(Head(s)) THEN TrimLeft(Tail(s)) ELSE s

RECURSIVE TrimRight(_)
TrimRight(s) ==
    IF s # <<>> /\ IsSpace(s[Len(s)]) THEN TrimRight(SubSeq(s, 1, Len(s) - 1)) ELSE s

TrimSpace(s) == TrimRight(TrimLeft(s))

\* strings.Contains
Contains(s, sub) ==
    \E i \in 0..(Len(s) - Len(sub)) : SubSeq(s, i + 1, i + Len(sub)) = sub

\* strings.Compare: -1, 0 or 1, byte by byte, a proper prefix being smaller
RECURSIVE Compare(_, _)
Compare(a, b) ==
    IF a = <<>> /\ b = <<>> THEN 0
    ELSE IF a = <<>> THEN -1
    ELSE IF b = <<>> THEN 1
    ELSE IF Code(Head(a)) < Code(Head(b)) THEN -1
    ELSE IF Code(Head(a)) > Code(Head(b)) THEN 1
    ELSE Compare(Tail(a), Tail(b))

(***************************************************************************)
(* Formatting and parsing of times.                                        *)
(***************************************************************************)
HourOf(t) == (t % Day) \div Hour
MinuteOf(t) == (t % Hour) \div Minute
\* 0 = Monday .. 6 = Sunday
WeekdayOf(t) == (t \div Day) % 7

TwoDigits(n) == <<Digit[(n \div 10) + 1], Digit[(n % 10) + 1]>>

\* time.Time.Format("15:04")
FormatHHMM(t) == TwoDigits(HourOf(t)) \o <<":">> \o TwoDigits(MinuteOf(t))

DayName ==
    <<<<"M", "o", "n">>, <<"T", "u", "e">>, <<"W", "e", "d">>, <<"T", "h", "u">>,
      <<"F", "r", "i">>, <<"S", "a", "t">>, <<"S", "u", "n">>>>

\* time.Time.Format("Mon")
FormatMon(t) == DayName[WeekdayOf(t) + 1]

IsDigitAt(s, i) == i <= Len(s) /\ \E d \in 1..10 : Digit[d] = s[i]
DigitAt(s, i) == (CHOOSE d \in 1..10 : Digit[d] = s[i]) - 1

\* time.Parse("15:04", s): an hour of one or two digits below 24, a colon, a
\* minute of exactly two digits below 60, and nothing after it
ParseHHMM(s) ==
    LET hl == IF IsDigitAt(s, 1) /\ IsDigitAt(s, 2) THEN 2 ELSE 1
        h == IF hl = 2 THEN 10 * DigitAt(s, 1) + DigitAt(s, 2) ELSE DigitAt(s, 1)
        m == 10 * DigitAt(s, hl + 2) + DigitAt(s, hl + 3)
        shape == /\ IsDigitAt(s, 1)
                 /\ Len(s) = hl + 3
                 /\ s[hl + 1] = ":"
                 /\ IsDigitAt(s, hl + 2)
                 /\ IsDigitAt(s, hl + 3)
    IN  IF shape /\ h < 24 /\ m < 60
        THEN [ok |-> TRUE, t |-> h * Hour + m * Minute]
        ELSE [ok |-> FALSE, t |-> 0]

\* time.ParseDuration on a string of <digits><unit> terms (units h, m, s) with an
\* optional sign, or "0".  Durations are multiples of the clock unit (30 s).
RECURSIVE ParseTerms(_, _, _)
ParseTerms(s, acc, num) ==
    \* num = -1: no digit of the current term read yet
    IF s = <<>> THEN [ok |-> num = -1, d |-> acc]
    ELSE IF IsDigitAt(s, 1)
         THEN ParseTerms(Tail(s), acc, (IF num = -1 THEN 0 ELSE 10 * num) + DigitAt(s, 1))
    ELSE IF num = -1 THEN [ok |-> FALSE, d |-> 0]
    ELSE IF Head(s) = "h" THEN ParseTerms(Tail(s), acc + num * Hour, -1)
    ELSE IF Head(s) = "m" THEN ParseTerms(Tail(s), acc + num * Minute, -1)
    ELSE IF Head(s) = "s" /\ (num * Minute) % 60 = 0
         THEN ParseTerms(Tail(s), acc + (num * Minute) \div 60, -1)
    ELSE [ok |-> FALSE, d |-> 0]

ParseDuration(s) ==
    LET neg == s # <<>> /\ Head(s) = "-"
        body == IF neg THEN Tail(s) ELSE s
        r == ParseTerms(body, 0, -1)
    IN  IF body = <<"0">> THEN [ok |-> TRUE, d |-> 0]
        ELSE IF body = <<>> THEN [ok |-> FALSE, d |-> 0]
        ELSE IF r.ok THEN [ok |-> TRUE, d |-> IF neg THEN 0 - r.d ELSE r.d]
        ELSE [ok |-> FALSE, d |-> 0]

(***************************************************************************)
(* URL templates.  A template is named by its text; the table gives what   *)
(* template.Parse, Execute and url.Parse make of it.                       *)
(***************************************************************************)
UrlStatic == "http://host.example/foo"
UrlNoScheme == "host.example/foo"
UrlUnclosed == "http://host.example/{{"
UrlBadField == "http://host.example/{{.time.Nope}}"
\* expands .time.Nope only when the minute of the hour ends in 1
UrlDynamic == "http://host.example/{{if eq (slice (.time.Format \"04\") 1) \"1\"}}{{.time.Nope}}{{end}}"

\* a URL whose server has two answers only
UrlSmallSite == "http://small.example/foo"

\* template.New("url").Parse(g.URL) succeeds
TemplateParses(u) == u # UrlUnclosed

\* g.urlt.Execute with "time" bound to t succeeds
Executes(u, t) ==
    /\ u # UrlBadField
    /\ u = UrlDynamic => MinuteOf(t) % 10 # 1

\* url.Parse of the expansion finds a scheme
HasScheme(u) == u # UrlNoScheme

\* getter.url
url(g, t) == [err |-> ~Executes(g.URL, t)]

(***************************************************************************)
(* Files and HTTP responses.                                               *)
(***************************************************************************)
Byte == {0, 1}

RECURSIVE SeqsUpTo(_)
SeqsUpTo(n) ==
    IF n = 0 THEN {<<>>}
    ELSE LET shorter == SeqsUpTo(n - 1)
         IN  shorter \cup {Append(b, x) : b \in {c \in shorter : Len(c) = n - 1}, x \in Byte}

\* the bodies a server may send
Bodies == SeqsUpTo(MaxBody)

StatusOK == 200
Statuses == {StatusOK, 503}

Responses == [status : Statuses, body : Bodies]
NoResponse == [status |-> 0, body |-> <<>>]

\* the responses the server of URL u may give
SmallSite == {[status |-> StatusOK, body |-> <<1>>], [status |-> 503, body |-> <<>>]}
Serves(u) == IF u = UrlSmallSite THEN SmallSite ELSE Responses

\* where a file's bytes come from: the file system at process start, nothing
\* (a fresh temporary file), or the response being copied into it
FromStartup == [kind |-> "startup", status |-> 0, body |-> <<>>]
FromNothing == [kind |-> "none", status |-> 0, body |-> <<>>]
FromResponse(r) == [kind |-> "http", status |-> r.status, body |-> r.body]

NoFile == [exists |-> FALSE, content |-> <<>>, mtime |-> ZeroTime, src |-> FromNothing]
File(content, mtime, src) ==
    [exists |-> TRUE, content |-> content, mtime |-> mtime, src |-> src]

(***************************************************************************)
(* The state.                                                              *)
(***************************************************************************)
VARIABLES
    now,          \* the clock, read by time.Now()
    boot,         \* the clock when the process started
    mainpc,       \* the process: "running", "fatal" (log.Fatal), "crashed" (killed)
    getters,      \* main's map from output path to *getter
    ready,        \* the targets whose setup has returned nil
    failGaugeVec, \* getlatest_failing_seconds, by target label (in clock units)
    pc,           \* each target's goroutine: where in run/download/trydownload it is
    ticker,       \* each target's time.Ticker: created, next tick, buffered tick
    outfile,      \* the file at g.Output
    tempfile,     \* the temporary file of the attempt in progress
    resp,         \* the HTTP response of the attempt in progress
    err,          \* the stage at which trydownload returned an error, or "nil"
    startup,      \* the file at g.Output when the process started
    before,       \* the file at g.Output when the attempt in progress began
    began,        \* the time.Now() download gave should when the attempt in progress
                  \* began (the zero time between attempts)
    streak,       \* history: the failed attempts since the last success (n), when the
                  \* first of them began (b1) and when download noted its failure (t1)
    started       \* history: when the target's latest attempt began (the zero time
                  \* before the first)

vars ==
    <<now, boot, mainpc, getters, ready, failGaugeVec, pc, ticker, outfile, tempfile,
      resp, err, startup, before, began, streak, started>>

Targets == DOMAIN getters

\* a ticker: whether it exists, when its next tick is due, how many ticks its
\* channel holds (the channel's capacity is 1), the time the held tick fell
\* due, and the time the tick last received fell due (the ticker's creation
\* before any is received)
NoTicker == [on |-> FALSE, next |-> ZeroTime, buf |-> 0, due |-> ZeroTime, got |-> ZeroTime]

\* the getter struct as yaml.Unmarshal leaves it
Config(u, nb, na, wd, min, ttl) ==
    [URL |-> u, NotBefore |-> nb, NotAfter |-> na, Weekdays |-> wd, MinimumSize |-> min,
     TTL |-> ttl, ttl |-> 0, lastSuccess |-> ZeroTime, failSince |-> ZeroTime]

(***************************************************************************)
(* getter.setup                                                            *)
(***************************************************************************)
\* the Weekdays field as setup leaves it
setupWeekdays(w) ==
    LET trimmed == TrimSpace(w)
    IN  IF trimmed # <<>> THEN <<" ">> \o ToLower(trimmed) ELSE trimmed

\* a setup that keeps NotBefore and NotAfter as they were written
setupTimeOfDayAsWritten(s) == s

\* the NotBefore or NotAfter field as setup leaves it
setupTimeOfDay(s) == IF ParseHHMM(s).ok THEN FormatHHMM(ParseHHMM(s).t) ELSE s

\* setup returns an error
setupFails(g, t) ==
    \/ ~TemplateParses(g.URL)
    \/ url(g, t).err
    \/ ~HasScheme(g.URL)
    \/ ~ParseHHMM(g.NotBefore).ok /\ g.NotBefore # <<>>
    \/ ~ParseHHMM(g.NotAfter).ok /\ g.NotAfter # <<>>
    \/ g.TTL # <<>> /\ ~ParseDuration(g.TTL).ok

\* a setup that does not look at the file at g.Output
setupDoneNoStat(g, stat) ==
    [g EXCEPT !.NotBefore = setupTimeOfDay(@),
              !.NotAfter = setupTimeOfDay(@),
              !.ttl = IF g.TTL = <<>> THEN Hour ELSE ParseDuration(g.TTL).d,
              !.Weekdays = setupWeekdays(@)]

\* the getter after a setup that returns nil; stat is the file at g.Output
setupDone(g, stat) ==
    [g EXCEPT !.lastSuccess = IF stat.exists THEN stat.mtime ELSE @,
              !.NotBefore = setupTimeOfDay(@),
              !.NotAfter = setupTimeOfDay(@),
              !.ttl = IF g.TTL = <<>> THEN Hour ELSE ParseDuration(g.TTL).d,
              !.Weekdays = setupWeekdays(@)]

(***************************************************************************)
(* getter.should                                                           *)
(***************************************************************************)
\* should without the ttl rule
shouldNoTTL(g, t) ==
    IF g.NotBefore # <<>> /\ Compare(FormatHHMM(t), g.NotBefore) < 0 THEN FALSE
    ELSE IF g.NotAfter # <<>> /\ Compare(FormatHHMM(t), g.NotAfter) > 0 THEN FALSE
    ELSE IF g.Weekdays # <<>> /\ ~Contains(g.Weekdays, <<" ">> \o ToLower(FormatMon(t)))
         THEN FALSE
    ELSE TRUE

\* should with the NotAfter bound taken as exclusive
shouldExclusive(g, t) ==
    IF Sub(t, g.lastSuccess) < g.ttl THEN FALSE
    ELSE IF g.NotBefore # <<>> /\ Compare(FormatHHMM(t), g.NotBefore) < 0 THEN FALSE
    ELSE IF g.NotAfter # <<>> /\ Compare(FormatHHMM(t), g.NotAfter) >= 0 THEN FALSE
    ELSE IF g.Weekdays # <<>> /\ ~Contains(g.Weekdays, <<" ">> \o ToLower(FormatMon(t)))
         THEN FALSE
    ELSE TRUE

should(g, t) ==
    IF Sub(t, g.lastSuccess) < g.ttl THEN FALSE
    ELSE IF g.NotBefore # <<>> /\ Compare(FormatHHMM(t), g.NotBefore) < 0 THEN FALSE
    ELSE IF g.NotAfter # <<>> /\ Compare(FormatHHMM(t), g.NotAfter) > 0 THEN FALSE
    ELSE IF g.Weekdays # <<>> /\ ~Contains(g.Weekdays, <<" ">> \o ToLower(FormatMon(t)))
         THEN FALSE
    ELSE TRUE

(***************************************************************************)
(* main: the setup loop and the go loop                                    *)
(***************************************************************************)
Alive == mainpc = "running"

\* g.setup() for one target of the map; an error is fatal to the process
Setup(k) ==
    /\ Alive
    /\ k \notin ready
    /\ IF setupFails(getters[k], now)
       THEN /\ mainpc' = "fatal"
            /\ UNCHANGED <<getters, ready, failGaugeVec, started>>
       ELSE /\ getters' = [getters EXCEPT ![k] = setupDone(@, outfile[k])]
            /\ failGaugeVec' = [failGaugeVec EXCEPT ![k] = 0]
            /\ ready' = ready \cup {k}
            /\ UNCHANGED mainpc
    /\ UNCHANGED <<now, boot, pc, ticker, outfile, tempfile, resp, startup, before, began,
                   err, streak, started>>

\* a run that starts with the ticker, without the download before the loop
GoToTicker(k) ==
    /\ Alive
    /\ ready = Targets
    /\ pc[k] = "new"
    /\ pc' = [pc EXCEPT ![k] = "newticker"]
    /\ UNCHANGED <<now, boot, mainpc, getters, ready, failGaugeVec, ticker, outfile,
                   tempfile, resp, startup, before, began,
                   err, streak, started>>

\* a main that starts each target's task as soon as its own setup has returned
GoAfterOwnSetup(k) ==
    /\ Alive
    /\ k \in ready
    /\ pc[k] = "new"
    /\ pc' = [pc EXCEPT ![k] = "download"]
    /\ UNCHANGED <<now, boot, mainpc, getters, ready, failGaugeVec, ticker, outfile,
                   tempfile, resp, startup, before, began,
                   err, streak, started>>

\* go g.run(), once every setup has returned nil
Go(k) ==
    /\ Alive
    /\ ready = Targets
    /\ pc[k] = "new"
    /\ pc' = [pc EXCEPT ![k] = "download"]
    /\ UNCHANGED <<now, boot, mainpc, getters, ready, failGaugeVec, ticker, outfile,
                   tempfile, resp, startup, before, began,
                   err, streak, started>>

(***************************************************************************)
(* getter.run: the ticker and the loop over its channel                    *)
(***************************************************************************)
\* where run continues when download returns
Returned(k) == IF ticker[k].on THEN "recv" ELSE "newticker"

\* time.NewTicker(time.Minute), after the first download has returned
NewTicker(k) ==
    /\ Alive
    /\ pc[k] = "newticker"
    /\ ticker' = [ticker EXCEPT ![k] = [on |-> TRUE, next |-> now + Minute, buf |-> 0,
                                        due |-> ZeroTime, got |-> now]]
    /\ pc' = [pc EXCEPT ![k] = "recv"]
    /\ UNCHANGED <<now, boot, mainpc, getters, ready, failGaugeVec, outfile, tempfile,
                   resp, startup, before, began,
                   err, streak, started>>

\* a timer whose every tick calls download at once, whatever run is doing
TickCallsDownload(k) ==
    /\ Alive
    /\ ticker[k].on
    /\ now >= ticker[k].next
    /\ ticker' = [ticker EXCEPT ![k].next = @ + Minute]
    /\ pc' = [pc EXCEPT ![k] = "download"]
    /\ UNCHANGED <<now, boot, mainpc, getters, ready, failGaugeVec, outfile,
                   tempfile, resp, startup, before, began,
                   err, streak, started>>

\* the runtime's timer: a tick is due; it is buffered, or dropped when one is
\* already buffered, and the next is due one period later
Tick(k) ==
    /\ Alive
    /\ ticker[k].on
    /\ now >= ticker[k].next
    /\ ticker' = [ticker EXCEPT ![k].buf = 1,
                                ![k].due = IF ticker[k].buf = 1 THEN @ ELSE ticker[k].next,
                                ![k].next = @ + Minute]
    /\ UNCHANGED <<now, boot, mainpc, getters, ready, failGaugeVec, pc, outfile,
                   tempfile, resp, startup, before, began,
                   err, streak, started>>

\* for range ticker.C: receive the buffered tick and call download
Recv(k) ==
    /\ Alive
    /\ pc[k] = "recv"
    /\ ticker[k].buf = 1
    /\ ticker' = [ticker EXCEPT ![k].buf = 0, ![k].due = ZeroTime, ![k].got = ticker[k].due]
    /\ pc' = [pc EXCEPT ![k] = "download"]
    /\ UNCHANGED <<now, boot, mainpc, getters, ready, failGaugeVec, outfile, tempfile,
                   resp, startup, before, began,
                   err, streak, started>>

(***************************************************************************)
(* getter.download: the eligibility check                                  *)
(***************************************************************************)
\* a download that sets the gauge to zero when should refuses
DownloadClearsGauge(k) ==
    /\ Alive
    /\ pc[k] = "download"
    /\ IF should(getters[k], now)
       THEN /\ pc' = [pc EXCEPT ![k] = "url"]
            /\ before' = [before EXCEPT ![k] = outfile[k]]
            /\ began' = [began EXCEPT ![k] = now]
            /\ started' = [started EXCEPT ![k] = now]
            /\ UNCHANGED failGaugeVec
       ELSE /\ pc' = [pc EXCEPT ![k] = Returned(k)]
            /\ failGaugeVec' = [failGaugeVec EXCEPT ![k] = 0]
            /\ UNCHANGED <<before, began, started>>
    /\ UNCHANGED <<now, boot, mainpc, getters, ready, ticker, outfile,
                   tempfile, resp, err, startup, streak>>

\* if !g.should(time.Now()) { return }; otherwise trydownload is called
Download(k) ==
    /\ Alive
    /\ pc[k] = "download"
    /\ IF should(getters[k], now)
       THEN /\ pc' = [pc EXCEPT ![k] = "url"]
            /\ before' = [before EXCEPT ![k] = outfile[k]]
            /\ began' = [began EXCEPT ![k] = now]
            /\ started' = [started EXCEPT ![k] = now]
       ELSE /\ pc' = [pc EXCEPT ![k] = Returned(k)]
            /\ UNCHANGED <<before, began, started>>
    /\ UNCHANGED <<now, boot, mainpc, getters, ready, failGaugeVec, ticker, outfile,
                   tempfile, resp, err, startup, streak>>

(***************************************************************************)
(* getter.trydownload, one action per call that reads or changes the       *)
(* world.  A step that returns an error before the temporary file exists   *)
(* goes to "failed"; one that returns an error after that goes to          *)
(* "defer_err": the deferred f.Close() and os.Remove(f.Name()) run before  *)
(* trydownload returns.  err names the stage that returned the error.      *)
(***************************************************************************)
\* resp.StatusCode != http.StatusOK
nonOK(r) == r.status # StatusOK

\* the MinimumSize check left out
tooSmallNever(n, g) == FALSE

\* the size test refusing a body of exactly MinimumSize bytes as well
tooSmallInclusive(n, g) == n <= g.MinimumSize

\* n < g.MinimumSize
tooSmall(n, g) == n < g.MinimumSize

\* a rename that leaves the file at g.Output as it was
renamedKeepsOld(out, tmp) == out

\* the file at g.Output after os.Rename(f.Name(), g.Output) of temporary file tmp
renamed(out, tmp) == tmp

\* the temporary file after io.Copy has written the next chunk of the body at time t
written(tmp, r, t) ==
    File(Append(tmp.content, r.body[Len(tmp.content) + 1]), t, FromResponse(r))

\* the deferred call removing g.Output instead of the temporary file
deferredRemovesOutput(out, tmp) == [out |-> NoFile, tmp |-> tmp]

\* trydownload returning without removing the temporary file
deferredKeepsTemp(out, tmp) == [out |-> out, tmp |-> tmp]

\* the output and the temporary file after the deferred os.Remove(f.Name())
deferred(out, tmp) == [out |-> out, tmp |-> NoFile]

\* g.url()
TryUrl(k) ==
    /\ Alive
    /\ pc[k] = "url"
    /\ IF url(getters[k], now).err
       THEN /\ pc' = [pc EXCEPT ![k] = "failed"]
            /\ err' = [err EXCEPT ![k] = "url"]
       ELSE /\ pc' = [pc EXCEPT ![k] = "tempfile"]
            /\ UNCHANGED err
    /\ UNCHANGED <<now, boot, mainpc, getters, ready, failGaugeVec, ticker, outfile,
                   tempfile, resp, startup, before, began, streak, started>>

\* ioutil.TempFile(outdir, "."+outfile+".")
TryTempFile(k) ==
    /\ Alive
    /\ pc[k] = "tempfile"
    /\ \E ok \in BOOLEAN :
          IF ok
          THEN /\ tempfile' = [tempfile EXCEPT ![k] = File(<<>>, now, FromNothing)]
               /\ pc' = [pc EXCEPT ![k] = "get"]
               /\ UNCHANGED err
          ELSE /\ pc' = [pc EXCEPT ![k] = "failed"]
               /\ err' = [err EXCEPT ![k] = "tempfile"]
               /\ UNCHANGED tempfile
    /\ UNCHANGED <<now, boot, mainpc, getters, ready, failGaugeVec, ticker, outfile,
                   resp, startup, before, began, streak, started>>

\* an http.Get that waits while another target's request is outstanding
TryGetOneAtATime(k) ==
    /\ Alive
    /\ pc[k] = "get"
    /\ \A j \in Targets \ {k} : pc[j] # "get"
    /\ \/ /\ pc' = [pc EXCEPT ![k] = "defer_err"]
          /\ err' = [err EXCEPT ![k] = "get"]
          /\ UNCHANGED <<resp, tempfile>>
       \/ \E r \in Serves(getters[k].URL) :
             /\ resp' = [resp EXCEPT ![k] = r]
             /\ IF nonOK(r)
                THEN /\ pc' = [pc EXCEPT ![k] = "defer_err"]
                     /\ err' = [err EXCEPT ![k] = "status"]
                     /\ UNCHANGED tempfile
                ELSE /\ pc' = [pc EXCEPT ![k] = "copy"]
                     /\ tempfile' = [tempfile EXCEPT ![k].src = FromResponse(r)]
                     /\ UNCHANGED err
    /\ UNCHANGED <<now, boot, mainpc, getters, ready, failGaugeVec, ticker, outfile,
                   startup, before, began, streak, started>>

\* http.Get(url) and the status check; a status-200 response is the one io.Copy
\* will copy into the temporary file
TryGet(k) ==
    /\ Alive
    /\ pc[k] = "get"
    /\ \/ /\ pc' = [pc EXCEPT ![k] = "defer_err"]
          /\ err' = [err EXCEPT ![k] = "get"]
          /\ UNCHANGED <<resp, tempfile, started>>
       \/ \E r \in Serves(getters[k].URL) :
             /\ resp' = [resp EXCEPT ![k] = r]
             /\ IF nonOK(r)
                THEN /\ pc' = [pc EXCEPT ![k] = "defer_err"]
                     /\ err' = [err EXCEPT ![k] = "status"]
                     /\ UNCHANGED tempfile
                ELSE /\ pc' = [pc EXCEPT ![k] = "copy"]
                     /\ tempfile' = [tempfile EXCEPT ![k].src = FromResponse(r)]
                     /\ UNCHANGED err
    /\ UNCHANGED <<now, boot, mainpc, getters, ready, failGaugeVec, ticker, outfile,
                   startup, before, began, streak, started>>

\* the copy writing each chunk to the file at g.Output as well
TryCopyInPlace(k) ==
    /\ Alive
    /\ pc[k] = "copy"
    /\ Len(tempfile[k].content) < Len(resp[k].body)
    /\ tempfile' = [tempfile EXCEPT ![k] = written(@, resp[k], now)]
    /\ outfile' = [outfile EXCEPT ![k] = written(tempfile[k], resp[k], now)]
    /\ UNCHANGED <<now, boot, mainpc, getters, ready, failGaugeVec, pc, ticker,
                   resp, err, startup, before, began, streak, started>>

\* io.Copy(f, resp.Body): one more chunk read and written
TryCopy(k) ==
    /\ Alive
    /\ pc[k] = "copy"
    /\ Len(tempfile[k].content) < Len(resp[k].body)
    /\ tempfile' = [tempfile EXCEPT ![k] = written(@, resp[k], now)]
    /\ UNCHANGED <<now, boot, mainpc, getters, ready, failGaugeVec, pc, ticker, outfile,
                   resp, err, startup, before, began, streak, started>>

\* io.Copy returns an error: a read or a write failed
TryCopyErr(k) ==
    /\ Alive
    /\ pc[k] = "copy"
    /\ pc' = [pc EXCEPT ![k] = "defer_err"]
    /\ err' = [err EXCEPT ![k] = "copy"]
    /\ UNCHANGED <<now, boot, mainpc, getters, ready, failGaugeVec, ticker, outfile,
                   tempfile, resp, startup, before, began, streak, started>>

\* io.Copy returns n at the end of the body; the MinimumSize check
TryCopyEnd(k) ==
    /\ Alive
    /\ pc[k] = "copy"
    /\ Len(tempfile[k].content) = Len(resp[k].body)
    /\ IF tooSmall(Len(tempfile[k].content), getters[k])
       THEN /\ pc' = [pc EXCEPT ![k] = "defer_err"]
            /\ err' = [err EXCEPT ![k] = "small"]
       ELSE /\ pc' = [pc EXCEPT ![k] = "close"]
            /\ UNCHANGED err
    /\ UNCHANGED <<now, boot, mainpc, getters, ready, failGaugeVec, ticker, outfile,
                   tempfile, resp, startup, before, began, streak, started>>

\* f.Close()
TryClose(k) ==
    /\ Alive
    /\ pc[k] = "close"
    /\ \E ok \in BOOLEAN :
          IF ok
          THEN /\ pc' = [pc EXCEPT ![k] = "rename"]
               /\ UNCHANGED err
          ELSE /\ pc' = [pc EXCEPT ![k] = "defer_err"]
               /\ err' = [err EXCEPT ![k] = "close"]
    /\ UNCHANGED <<now, boot, mainpc, getters, ready, failGaugeVec, ticker, outfile,
                   tempfile, resp, startup, before, began, streak, started>>

\* os.Rename(f.Name(), g.Output)
TryRename(k) ==
    /\ Alive
    /\ pc[k] = "rename"
    /\ \E ok \in BOOLEAN :
          IF ok
          THEN /\ outfile' = [outfile EXCEPT ![k] = renamed(@, tempfile[k])]
               /\ tempfile' = [tempfile EXCEPT ![k] = NoFile]
               /\ pc' = [pc EXCEPT ![k] = "renamed"]
               /\ UNCHANGED err
          ELSE /\ pc' = [pc EXCEPT ![k] = "defer_err"]
               /\ err' = [err EXCEPT ![k] = "rename"]
               /\ UNCHANGED <<outfile, tempfile, started>>
    /\ UNCHANGED <<now, boot, mainpc, getters, ready, failGaugeVec, ticker, resp,
                   startup, before, began, streak, started>>

\* g.lastSuccess = time.Now()
TrySuccess(k) ==
    /\ Alive
    /\ pc[k] = "renamed"
    /\ getters' = [getters EXCEPT ![k].lastSuccess = now]
    /\ pc' = [pc EXCEPT ![k] = "defer_ok"]
    /\ UNCHANGED <<now, boot, mainpc, ready, failGaugeVec, ticker, outfile, tempfile,
                   resp, err, startup, before, began, streak, started>>

\* the deferred f.Close() and os.Remove(f.Name()), then trydownload returns
TryDeferred(k) ==
    /\ Alive
    /\ pc[k] \in {"defer_err", "defer_ok"}
    /\ outfile' = [outfile EXCEPT ![k] = deferred(outfile[k], tempfile[k]).out]
    /\ tempfile' = [tempfile EXCEPT ![k] = deferred(outfile[k], tempfile[k]).tmp]
    /\ resp' = [resp EXCEPT ![k] = NoResponse]
    /\ pc' = [pc EXCEPT ![k] = IF pc[k] = "defer_ok" THEN "succeeded" ELSE "failed"]
    /\ UNCHANGED <<now, boot, mainpc, getters, ready, failGaugeVec, ticker, err,
                   startup, before, began, streak, started>>

(***************************************************************************)
(* getter.download: the bookkeeping after trydownload has returned         *)
(***************************************************************************)
\* the error branch setting failSince on every failure
failSinceAlways(g, t) == t

\* g.failSince after the error branch's first statement, at time t
failSinceOnError(g, t) == IF IsZero(g.failSince) THEN t ELSE g.failSince

\* the gauge measured from the last success instead of from failSince
gaugeSinceSuccess(g, t) == Sub(t, g.lastSuccess)

\* the value the error branch sets the gauge to, at time t
gaugeOnError(g, t) == Sub(t, g.failSince)

NoStreak == [n |-> 0, b1 |-> ZeroTime, t1 |-> ZeroTime]

\* the error branch also recording the attempt's time in lastSuccess
FailedStampsSuccess(k) ==
    /\ Alive
    /\ pc[k] = "failed"
    /\ getters' = [getters EXCEPT ![k].failSince = failSinceOnError(getters[k], now),
                                  ![k].lastSuccess = now]
    /\ streak' = [streak EXCEPT ![k] = [n |-> @.n + 1,
                                        b1 |-> IF @.n = 0 THEN began[k] ELSE @.b1,
                                        t1 |-> IF @.n = 0 THEN now ELSE @.t1]]
    /\ pc' = [pc EXCEPT ![k] = "report"]
    /\ UNCHANGED <<now, boot, mainpc, ready, failGaugeVec, ticker, outfile, tempfile,
                   resp, err, startup, before, began, started>>

\* err != nil: if g.failSince.IsZero() { g.failSince = time.Now() }
Failed(k) ==
    /\ Alive
    /\ pc[k] = "failed"
    /\ getters' = [getters EXCEPT ![k].failSince = failSinceOnError(getters[k], now)]
    /\ streak' = [streak EXCEPT ![k] = [n |-> @.n + 1,
                                        b1 |-> IF @.n = 0 THEN began[k] ELSE @.b1,
                                        t1 |-> IF @.n = 0 THEN now ELSE @.t1]]
    /\ pc' = [pc EXCEPT ![k] = "report"]
    /\ UNCHANGED <<now, boot, mainpc, ready, failGaugeVec, ticker, outfile, tempfile,
                   resp, err, startup, before, began, started>>

\* an error branch that calls download again at once
ReportRetriesAtOnce(k) ==
    /\ Alive
    /\ pc[k] = "report"
    /\ failGaugeVec' = [failGaugeVec EXCEPT ![k] = gaugeOnError(getters[k], now)]
    /\ err' = [err EXCEPT ![k] = "nil"]
    /\ began' = [began EXCEPT ![k] = ZeroTime]
    /\ pc' = [pc EXCEPT ![k] = "download"]
    /\ UNCHANGED <<now, boot, mainpc, getters, ready, ticker, outfile, tempfile, resp,
                   startup, before, streak, started>>

\* log.Print(err); g.failGauge.Set(time.Now().Sub(g.failSince).Seconds())
Report(k) ==
    /\ Alive
    /\ pc[k] = "report"
    /\ failGaugeVec' = [failGaugeVec EXCEPT ![k] = gaugeOnError(getters[k], now)]
    /\ err' = [err EXCEPT ![k] = "nil"]
    /\ began' = [began EXCEPT ![k] = ZeroTime]
    /\ pc' = [pc EXCEPT ![k] = Returned(k)]
    /\ UNCHANGED <<now, boot, mainpc, getters, ready, ticker, outfile, tempfile, resp,
                   startup, before, streak, started>>

\* a success branch that sets the gauge of every target to zero
SucceededClearsAll(k) ==
    /\ Alive
    /\ pc[k] = "succeeded"
    /\ getters' = [getters EXCEPT ![k].failSince = ZeroTime]
    /\ failGaugeVec' = [j \in Targets |-> 0]
    /\ streak' = [streak EXCEPT ![k] = NoStreak]
    /\ began' = [began EXCEPT ![k] = ZeroTime]
    /\ pc' = [pc EXCEPT ![k] = Returned(k)]
    /\ UNCHANGED <<now, boot, mainpc, ready, ticker, outfile, tempfile, resp, err,
                   startup, before, started>>

\* err == nil: g.failSince = time.Time{}; g.failGauge.Set(0)
Succeeded(k) ==
    /\ Alive
    /\ pc[k] = "succeeded"
    /\ getters' = [getters EXCEPT ![k].failSince = ZeroTime]
    /\ failGaugeVec' = [failGaugeVec EXCEPT ![k] = 0]
    /\ streak' = [streak EXCEPT ![k] = NoStreak]
    /\ began' = [began EXCEPT ![k] = ZeroTime]
    /\ pc' = [pc EXCEPT ![k] = Returned(k)]
    /\ UNCHANGED <<now, boot, mainpc, ready, ticker, outfile, tempfile, resp, err,
                   startup, before, started>>

(***************************************************************************)
(* The environment: the clock, and the process being killed.               *)
(***************************************************************************)
\* how far past the start of the process the clock is followed
Horizon ==
    IF Cardinality(Targets) > 1 THEN MaxElapsedTwo
    ELSE IF \A k \in Targets : getters[k].URL = UrlSmallSite THEN MaxElapsedSmall
    ELSE MaxElapsed

\* time passes; a due tick is delivered before the clock moves on
Advance ==
    /\ Alive
    /\ now < boot + Horizon
    /\ \A k \in Targets : ticker[k].on => ticker[k].next > now
    /\ now' = now + 1
    /\ UNCHANGED <<boot, mainpc, getters, ready, failGaugeVec, pc, ticker, outfile,
                   tempfile, resp, err, startup, before, began, streak, started>>

\* the process is killed: no deferred call runs, the files stay as they are
Crash ==
    /\ Alive
    /\ mainpc' = "crashed"
    /\ UNCHANGED <<now, boot, getters, ready, failGaugeVec, pc, ticker, outfile,
                   tempfile, resp, err, startup, before, began, streak, started>>

(***************************************************************************)
(* Specifications.                                                         *)
(***************************************************************************)
At(day, h, m) == day * Day + h * Hour + m * Minute

\* the state when main has read the configuration: paths is the set of output
\* paths, each with a configuration of cfgs and either no file or a file last
\* written some time of ages before the process started
InitWith(paths, boots, cfgs, ages) ==
    /\ boot \in boots
    /\ now = boot
    /\ mainpc = "running"
    /\ getters \in [paths -> cfgs]
    /\ ready = {}
    /\ failGaugeVec = [k \in paths |-> 0]
    /\ pc = [k \in paths |-> "new"]
    /\ ticker = [k \in paths |-> NoTicker]
    /\ outfile \in [paths -> {NoFile} \cup {File(<<1>>, boot - a, FromStartup) : a \in ages}]
    /\ tempfile = [k \in paths |-> NoFile]
    /\ resp = [k \in paths |-> NoResponse]
    /\ err = [k \in paths |-> "nil"]
    /\ began = [k \in paths |-> ZeroTime]
    /\ startup = outfile
    /\ before = outfile
    /\ streak = [k \in paths |-> NoStreak]
    /\ started = [k \in paths |-> ZeroTime]

Weekdays5 ==
    <<"M", "o", "n", " ", "T", "u", "e", " ", "W", "e", "d", " ", "T", "h", "u", " ",
      "F", "r", "i">>

\* one target: a plain configuration; one whose URL template fails at some
\* times and one that setup refuses; one with a window and weekdays
Init ==
    \/ InitWith({"/tmp/a"}, {At(2, 7, 0)},
                {Config(UrlStatic, <<>>, <<>>, <<>>, 1, <<"1", "m">>)},
                {1})
    \/ InitWith({"/tmp/a"}, {At(2, 7, 0)},
                {Config(UrlDynamic, <<>>, <<>>, <<>>, 2, <<"0">>),
                 Config(UrlNoScheme, <<>>, <<>>, <<>>, 0, <<>>)},
                {})
    \/ InitWith({"/tmp/a"}, {At(2, 6, 59), At(2, 9, 0), At(5, 8, 59)},
                {Config(UrlStatic, <<"7", ":", "0", "0">>, <<"0", "9", ":", "0", "0">>,
                        Weekdays5, 0, <<"9", "0", "s">>)},
                {1})

Next ==
    \/ \E k \in Targets : Setup(k)
    \/ \E k \in Targets : Go(k)
    \/ \E k \in Targets : NewTicker(k)
    \/ \E k \in Targets : Tick(k)
    \/ \E k \in Targets : Recv(k)
    \/ \E k \in Targets : Download(k)
    \/ \E k \in Targets : TryUrl(k)
    \/ \E k \in Targets : TryTempFile(k)
    \/ \E k \in Targets : TryGet(k)
    \/ \E k \in Targets : TryCopy(k)
    \/ \E k \in Targets : TryCopyErr(k)
    \/ \E k \in Targets : TryCopyEnd(k)
    \/ \E k \in Targets : TryClose(k)
    \/ \E k \in Targets : TryRename(k)
    \/ \E k \in Targets : TrySuccess(k)
    \/ \E k \in Targets : TryDeferred(k)
    \/ \E k \in Targets : Failed(k)
    \/ \E k \in Targets : Report(k)
    \/ \E k \in Targets : Succeeded(k)
    \/ Advance
    \/ Crash

Spec == Init /\ [][Next]_vars

\* one target that is eligible at every evaluation, followed for longer
InitSmall ==
    InitWith({"/tmp/a"}, {At(2, 7, 0)},
             {Config(UrlSmallSite, <<>>, <<>>, <<>>, 1, <<"0">>)}, {})

SpecSmall == InitSmall /\ [][Next]_vars

\* configurations setup refuses: a template that does not parse, a URL without
\* a scheme, and NotBefore, NotAfter and TTL values that do not parse
Malformed ==
    {Config(UrlUnclosed, <<>>, <<>>, <<>>, 0, <<>>),
     Config(UrlNoScheme, <<>>, <<>>, <<>>, 0, <<>>),
     Config(UrlSmallSite, <<"7", "h">>, <<>>, <<>>, 0, <<>>),
     Config(UrlSmallSite, <<>>, <<"2", "5", ":", "0", "0">>, <<>>, 0, <<>>),
     Config(UrlSmallSite, <<>>, <<>>, <<>>, 0, <<"1", "x">>)}

\* two targets, each eligible at every evaluation or malformed
InitTwo ==
    InitWith({"/tmp/a", "/tmp/b"}, {At(2, 7, 0)},
             {Config(UrlSmallSite, <<>>, <<>>, <<>>, 1, <<"0">>)} \cup Malformed, {})

SpecTwo == InitTwo /\ [][Next]_vars

\* the steps of the goroutine of target k
Task(k) ==
    \/ Go(k) \/ NewTicker(k) \/ Recv(k) \/ Download(k)
    \/ TryUrl(k) \/ TryTempFile(k) \/ TryGet(k)
    \/ TryCopy(k) \/ TryCopyErr(k) \/ TryCopyEnd(k)
    \/ TryClose(k) \/ TryRename(k) \/ TrySuccess(k) \/ TryDeferred(k)
    \/ Failed(k) \/ Report(k) \/ Succeeded(k)

\* two targets eligible at the start of the process, "/tmp/a" in the last
\* minute of its window and "/tmp/b" at every evaluation
InitOneBlocked ==
    /\ InitWith({"/tmp/a", "/tmp/b"}, {At(2, 7, 0)},
                {Config(UrlSmallSite, <<>>, <<"7", ":", "0", "0">>, <<>>, 1, <<"0">>),
                 Config(UrlSmallSite, <<>>, <<>>, <<>>, 1, <<"0">>)}, {})
    /\ getters["/tmp/a"].NotAfter # <<>>
    /\ getters["/tmp/b"].NotAfter = <<>>

\* two targets: main, the timer and the goroutine of "/tmp/b" are scheduled
\* fairly, while the goroutine of "/tmp/a" may wait for ever at any step, the
\* HTTP request among them
SpecOneBlocked ==
    /\ InitOneBlocked
    /\ [][Next]_vars
    /\ WF_vars(\E k \in Targets : Setup(k))
    /\ WF_vars(Tick("/tmp/b"))
    /\ WF_vars(Task("/tmp/b"))

(***************************************************************************)
(* should as a function of its inputs: configurations over every           *)
(* combination of constraints, an output file that is absent or was        *)
(* written at the start of the week or one unit before it, and a clock     *)
(* that jumps between the instants of SampleTimes.                         *)
(***************************************************************************)
SampleTimes ==
    {At(2, 4, 0), At(2, 6, 59) + 1, At(2, 7, 0), At(2, 8, 59), At(2, 9, 0),
     At(2, 9, 0) + 1, At(2, 9, 1), At(2, 9, 15), At(2, 10, 5), At(5, 1, 23) + 1,
     At(5, 8, 59), At(6, 23, 59) + 1, At(7, 0, 0)}

ShouldConfigs ==
    {Config(UrlStatic, nb, na, wd, 0, ttl) :
        nb \in {<<>>, <<"7", ":", "0", "0">>},
        na \in {<<>>, <<"0", "9", ":", "0", "0">>},
        wd \in {<<>>, Weekdays5, <<" ", "s", "a", "t", " ", "S", "U", "N", " ">>},
        ttl \in {<<>>, <<"5", "5", "h">>, <<"0">>}}
    \cup {Config(UrlStatic, <<"2", "2", ":", "0", "0">>, <<"6", ":", "0", "0">>, wd, 0, <<"0">>) :
             wd \in {<<>>, Weekdays5}}

InitShould == InitWith({"/tmp/a"}, {At(0, 0, 0)}, ShouldConfigs, {0, 1})

\* the clock is read at a later instant
Jump ==
    /\ Alive
    /\ \E t \in SampleTimes : t > now /\ now' = t
    /\ UNCHANGED <<boot, mainpc, getters, ready, failGaugeVec, pc, ticker, outfile,
                   tempfile, resp, err, startup, before, began, streak, started>>

NextShould ==
    \/ \E k \in Targets : Setup(k)
    \/ \E k \in Targets : Go(k)
    \/ \E k \in Targets : Download(k)
    \/ Jump

SpecShould == InitShould /\ [][NextShould]_vars

(***************************************************************************)
(* C4: should(now) is true exactly when the four rules hold.               *)
(***************************************************************************)
MinuteOfDay(t) == (t % Day) \div Minute

\* the minute of the day a normalised HH:MM bound names
BoundMinute(s) == ParseHHMM(s).t \div Minute

\* the words of a string, separated by spaces
RECURSIVE Words(_, _)
Words(s, word) ==
    IF s = <<>> THEN (IF word = <<>> THEN {} ELSE {word})
    ELSE IF Head(s) = " "
         THEN (IF word = <<>> THEN {} ELSE {word}) \cup Words(Tail(s), <<>>)
    ELSE Words(Tail(s), Append(word, Head(s)))

\* the weekdays (0 = Monday) a Weekdays field names, in either case
AllowedDays(w) == {d \in 0..6 : ToLower(DayName[d + 1]) \in Words(ToLower(w), <<>>)}

RuleTTL(g, t) == IsZero(g.lastSuccess) \/ t - g.lastSuccess >= g.ttl
RuleNotBefore(g, t) == g.NotBefore = <<>> \/ MinuteOfDay(t) >= BoundMinute(g.NotBefore)
RuleNotAfter(g, t) == g.NotAfter = <<>> \/ MinuteOfDay(t) <= BoundMinute(g.NotAfter)
RuleWeekday(g, t) == g.Weekdays = <<>> \/ WeekdayOf(t) \in AllowedDays(g.Weekdays)

FourRules(g, t) ==
    RuleTTL(g, t) /\ RuleNotBefore(g, t) /\ RuleNotAfter(g, t) /\ RuleWeekday(g, t)

\* C4: whenever download has evaluated should(time.Now()), it goes on to
\* trydownload exactly when the ttl rule, the NotBefore rule, the NotAfter rule
\* (both bounds inclusive) and the weekday rule all hold of the clock and the
\* target; an unconstrained target with its ttl satisfied is always eligible.
C4_ShouldIsTheFourRules ==
    [][\A k \in Targets :
          (pc[k] = "download" /\ pc'[k] # "download")
             => /\ (pc'[k] = "url") <=> FourRules(getters[k], now)
                /\ (/\ getters[k].NotBefore = <<>>
                    /\ getters[k].NotAfter = <<>>
                    /\ getters[k].Weekdays = <<>>
                    /\ RuleTTL(getters[k], now)) => pc'[k] = "url"]_vars

\* an attempt begun in the last minute of the window, on an allowed weekday,
\* exactly ttl after the output file was written
C4_Witness ==
    \E k \in Targets :
        /\ pc[k] = "url"
        /\ getters[k].NotAfter # <<>>
        /\ FormatHHMM(now) = getters[k].NotAfter
        /\ getters[k].NotBefore # <<>>
        /\ getters[k].Weekdays # <<>>
        /\ ~IsZero(getters[k].lastSuccess)
        /\ getters[k].ttl > 0

(***************************************************************************)
(* C1: the output file is the startup file or a complete valid body.       *)
(***************************************************************************)
\* f holds the whole body of one response that had status 200 and at least
\* g.MinimumSize bytes
CompleteBody(f, g) ==
    /\ f.exists
    /\ f.src.kind = "http"
    /\ f.src.status = StatusOK
    /\ f.content = f.src.body
    /\ Len(f.content) >= g.MinimumSize

\* C1: in every reachable state, those in the middle of an attempt and those a
\* kill of the process leaves included, the file at the output path is the file
\* that was (or was not) there at process start, or holds the complete body of a
\* single status-200 response of at least MinimumSize bytes.
C1_OutputNeverPartial ==
    \A k \in Targets : outfile[k] = startup[k] \/ CompleteBody(outfile[k], getters[k])

\* the process was killed while copying a body, with part of it written to the
\* temporary file, after an earlier attempt had installed a body
C1_Witness ==
    \E k \in Targets :
        /\ mainpc = "crashed"
        /\ pc[k] = "copy"
        /\ Len(tempfile[k].content) > 0
        /\ Len(tempfile[k].content) < Len(resp[k].body)
        /\ outfile[k] # startup[k]

(***************************************************************************)
(* C2: a failed attempt leaves the output file as it was.                  *)
(***************************************************************************)
\* trydownload has returned an error, or is about to (its deferred calls are
\* still to run), or the error has been noted
AttemptFailed(k) == pc[k] \in {"defer_err", "failed", "report"}

\* C2: when an attempt fails, at whichever stage (URL render, temp-file creation,
\* GET, status, copy, MinimumSize, close, rename), the output file has the bytes
\* and the modification time it had when the attempt began, and no later stage
\* has run: no response was fetched after a render or temp-file error, and
\* nothing was copied after a GET error or a non-200 status.
C2_FailedAttemptLeavesOutput ==
    \A k \in Targets :
        AttemptFailed(k) =>
            /\ err[k] \in {"url", "tempfile", "get", "status", "copy", "small", "close",
                           "rename"}
            /\ outfile[k] = before[k]
            /\ err[k] \in {"url", "tempfile"} => tempfile[k] = NoFile
            /\ err[k] \in {"url", "tempfile", "get"} => resp[k] = NoResponse
            /\ err[k] \in {"get", "status"} => tempfile[k].content = <<>>

\* the rename failed in an attempt made after an earlier one had installed a body
C2_Witness ==
    \E k \in Targets :
        /\ pc[k] = "failed"
        /\ err[k] = "rename"
        /\ outfile[k].exists
        /\ outfile[k] # startup[k]

(***************************************************************************)
(* C3: no attempt within ttl of the last success.                          *)
(***************************************************************************)
\* an attempt has begun and has not yet recorded a success
AttemptOpen(k) ==
    pc[k] \in {"url", "tempfile", "get", "copy", "close", "rename", "renamed",
               "defer_err", "failed"}

\* C3: for a target with ttl > 0 whose lastSuccess is s, no attempt is under way
\* at a time t with t - s < ttl: every attempt began, and runs, at least ttl
\* after the success (or the startup file time) that lastSuccess records,
\* whatever the window and the weekdays allow.
C3_NoAttemptWithinTTL ==
    \A k \in Targets :
        (getters[k].ttl > 0 /\ AttemptOpen(k)) => now - getters[k].lastSuccess >= getters[k].ttl

\* a second attempt has begun, after an attempt of this process succeeded
C3_Witness ==
    \E k \in Targets :
        /\ pc[k] = "url"
        /\ getters[k].ttl > 0
        /\ getters[k].lastSuccess >= boot
        /\ now - getters[k].lastSuccess = getters[k].ttl

(***************************************************************************)
(* C5: lastSuccess only advances, and only on an install.                  *)
(***************************************************************************)
\* C5: once setup has returned, every step that changes a target's lastSuccess
\* sets it to a later time and is the step right after os.Rename put a body that
\* had passed the MinimumSize check onto the output path; no other step (a
\* failed attempt, an ineligible tick) changes it.
C5_LastSuccessOnlyOnInstall ==
    [][\A k \in Targets :
          (k \in ready /\ getters'[k].lastSuccess # getters[k].lastSuccess)
             => /\ getters'[k].lastSuccess >= getters[k].lastSuccess
                /\ getters'[k].lastSuccess = now
                /\ pc[k] = "renamed"
                /\ CompleteBody(outfile[k], getters[k])
                /\ outfile[k].content = resp[k].body
                /\ tempfile[k] = NoFile]_vars

\* a second install of this process has just been recorded in lastSuccess
C5_Witness ==
    \E k \in Targets :
        /\ pc[k] = "defer_ok"
        /\ getters[k].lastSuccess = now
        /\ before[k] # startup[k]
        /\ outfile[k] # before[k]

(***************************************************************************)
(* C6: failSince is set once per failure streak and cleared by a success.  *)
(***************************************************************************)
\* C6: failSince is unset at startup; the first failed attempt of a streak (the
\* first after startup or after a success) sets it to the current time; every
\* later failed attempt of the streak keeps that value; the next successful
\* attempt clears it; and no other step changes it.
C6_FailSinceOncePerStreak ==
    /\ \A k \in Targets : IsZero(getters[k].failSince)
    /\ [][\A k \in Targets :
             /\ (pc[k] = "failed" /\ pc'[k] = "report")
                   => IF streak[k].n = 0
                      THEN /\ IsZero(getters[k].failSince)
                           /\ getters'[k].failSince = now
                      ELSE /\ ~IsZero(getters[k].failSince)
                           /\ getters'[k].failSince = getters[k].failSince
             /\ (pc[k] = "succeeded" /\ pc'[k] # "succeeded")
                   => IsZero(getters'[k].failSince)
             /\ getters'[k].failSince # getters[k].failSince
                   => \/ pc[k] = "failed" /\ pc'[k] = "report"
                      \/ pc[k] = "succeeded" /\ pc'[k] # "succeeded"]_vars

\* the second failed attempt of a streak has been noted, later than the first
C6_Witness ==
    \E k \in Targets :
        /\ pc[k] = "report"
        /\ streak[k].n = 2
        /\ ~IsZero(getters[k].failSince)
        /\ getters[k].failSince < now

(***************************************************************************)
(* C7: the failing-duration gauge across a failure streak.                 *)
(***************************************************************************)
\* download reports a failure / returns from a success, for target k
ReportStep(k) == pc[k] = "report" /\ pc'[k] # "report"
SuccessStep(k) == pc[k] = "succeeded" /\ pc'[k] # "succeeded"

\* C7 as stated: at the report of the N-th failed attempt of a streak the gauge
\* has not decreased and equals tN - t1, the time the N-th attempt began minus
\* the time the first attempt of the streak began; a success sets it to zero.
C7_GaugeIsTickDifference ==
    [][\A k \in Targets :
          /\ ReportStep(k)
                => /\ failGaugeVec'[k] >= failGaugeVec[k]
                   /\ failGaugeVec'[k] = began[k] - streak[k].b1
          /\ SuccessStep(k) => failGaugeVec'[k] = 0]_vars

\* C7 (amended): at the report of each failed attempt of a streak the gauge has
\* not decreased and equals the time of that report minus the time at which
\* download noted the first failure of the streak, which is at least tN - t1 less
\* the time the first attempt took; a success sets it to zero.
C7_GaugeIsTimeSinceFirstFailure ==
    [][\A k \in Targets :
          /\ ReportStep(k)
                => /\ failGaugeVec'[k] >= failGaugeVec[k]
                   /\ failGaugeVec'[k] = now - streak[k].t1
                   /\ failGaugeVec'[k] >= (began[k] - streak[k].b1)
                                             - (streak[k].t1 - streak[k].b1)
          /\ SuccessStep(k) => failGaugeVec'[k] = 0]_vars

\* the second failure of a streak has been reported, with a gauge above zero
\* that differs from the difference of the two attempts' times
C7_Witness ==
    \E k \in Targets :
        /\ pc[k] = "recv"
        /\ streak[k].n = 2
        /\ failGaugeVec[k] > 0
        /\ failGaugeVec[k] = now - streak[k].t1
        /\ streak[k].t1 > streak[k].b1

(***************************************************************************)
(* C8: what a successful attempt leaves behind.                            *)
(***************************************************************************)
\* the response of the attempt under way is one the size check accepts
GoodResponse(k) ==
    /\ resp[k] # NoResponse
    /\ resp[k].status = StatusOK
    /\ Len(resp[k].body) >= getters[k].MinimumSize

\* C8: an attempt that got a status-200 response of at least MinimumSize bytes
\* fails only at a filesystem step (the copy, the close, the rename); when none
\* fails, lastSuccess is set to the time read right after the rename, the
\* deferred clean-up removes the temporary file and leaves the output file
\* holding exactly the body's bytes, and download then returns with that file
\* untouched, lastSuccess within the attempt, failSince zero and the gauge zero.
C8_SuccessInstallsBody ==
    [][\A k \in Targets :
          /\ (GoodResponse(k) /\ pc[k] # "defer_err" /\ pc'[k] = "defer_err")
                => err'[k] \in {"copy", "close", "rename"}
          /\ (pc[k] = "renamed" /\ pc'[k] = "defer_ok")
                => /\ GoodResponse(k)
                   /\ getters'[k].lastSuccess = now
          /\ (pc[k] = "defer_ok" /\ pc'[k] = "succeeded")
                => /\ GoodResponse(k)
                   /\ outfile'[k].exists
                   /\ outfile'[k].content = resp[k].body
                   /\ outfile'[k] = outfile[k]
                   /\ tempfile'[k] = NoFile
          /\ SuccessStep(k)
                => /\ CompleteBody(outfile'[k], getters'[k])
                   /\ outfile'[k] = outfile[k]
                   /\ began[k] <= getters'[k].lastSuccess
                   /\ getters'[k].lastSuccess <= now
                   /\ IsZero(getters'[k].failSince)
                   /\ failGaugeVec'[k] = 0]_vars

\* download has returned from a successful attempt that replaced the startup
\* file with a response's body
C8_Witness ==
    \E k \in Targets :
        /\ pc[k] \in {"newticker", "recv"}
        /\ startup[k].exists
        /\ CompleteBody(outfile[k], getters[k])
        /\ Len(outfile[k].content) >= 1
        /\ getters[k].lastSuccess >= boot
        /\ IsZero(getters[k].failSince)
        /\ failGaugeVec[k] = 0

(***************************************************************************)
(* C9: a healthy target's attempt gets a body below MinimumSize.           *)
(***************************************************************************)
\* download is reporting the first failure of a streak, a body that was too small
FirstSmallReport(k) == ReportStep(k) /\ err[k] = "small" /\ streak[k].n = 1

\* C9 as stated: when a healthy target's attempt got a body below MinimumSize,
\* the attempt has failed, the output file is as it was before the attempt, and
\* the gauge the attempt leaves is not zero.
C9_SmallBodyMakesGaugeNonzero ==
    [][\A k \in Targets :
          FirstSmallReport(k)
             => /\ outfile'[k] = before[k]
                /\ failGaugeVec'[k] # 0]_vars

\* C9 (amended): a copied body fails the size check exactly when it has fewer
\* than MinimumSize bytes; when that happens to a healthy target (failSince
\* zero, gauge zero) the output file is as it was before the attempt, failSince
\* becomes the time the failure is noted, and the gauge becomes the time from
\* then to the report, which is never negative and is zero when the clock has
\* not moved in between.
C9_SmallBodyStartsStreak ==
    [][\A k \in Targets :
          /\ (pc[k] = "copy" /\ pc'[k] # "copy" /\ err'[k] # "copy")
                => (err'[k] = "small" <=> Len(resp[k].body) < getters[k].MinimumSize)
          /\ (pc[k] = "failed" /\ pc'[k] = "report" /\ err[k] = "small"
                /\ IsZero(getters[k].failSince))
                => /\ failGaugeVec[k] = 0
                   /\ outfile'[k] = before[k]
                   /\ getters'[k].failSince = now
                   /\ ~IsZero(getters'[k].failSince)
                   /\ getters'[k].lastSuccess = getters[k].lastSuccess
          /\ FirstSmallReport(k)
                => /\ outfile'[k] = before[k]
                   /\ failGaugeVec'[k] = now - getters[k].failSince
                   /\ failGaugeVec'[k] >= 0
                   /\ (now = streak[k].t1 => failGaugeVec'[k] = 0)]_vars

\* a healthy target's attempt got a one-byte body where two are required, the
\* failure has been noted and is about to be reported with the clock unmoved
C9_Witness ==
    \E k \in Targets :
        /\ pc[k] = "report"
        /\ err[k] = "small"
        /\ streak[k].n = 1
        /\ getters[k].failSince = now
        /\ failGaugeVec[k] = 0
        /\ outfile[k] = before[k]
        /\ getters[k].MinimumSize = 2

(***************************************************************************)
(* C10: what a reader of the output path can see over many attempts.       *)
(***************************************************************************)
\* f is a body that an attempt installed
Installed(f) == f.exists /\ f.src.kind = "http"

\* C10 as stated: the file at the output path never becomes shorter than a body
\* installed before it, and once a body is installed the file never has fewer
\* than MinimumSize bytes.
C10_OutputNeverShrinks ==
    [][\A k \in Targets :
          /\ (Installed(outfile[k]) /\ outfile'[k] # outfile[k])
                => Len(outfile'[k].content) >= Len(outfile[k].content)
          /\ Installed(outfile'[k])
                => Len(outfile'[k].content) >= getters'[k].MinimumSize]_vars

\* C10 (amended): the file at the output path changes only by the rename, in
\* one step from the previous file to the whole body of the attempt's
\* status-200 response of at least MinimumSize bytes; once a body is installed
\* the file stays an installed body of at least MinimumSize bytes, whether or
\* not the process is killed, though a later body may be shorter than an
\* earlier one.
C10_OutputReplacedWhole ==
    [][\A k \in Targets :
          /\ outfile'[k] # outfile[k]
                => /\ pc[k] = "rename"
                   /\ outfile[k] = before[k]
                   /\ outfile'[k].exists
                   /\ outfile'[k].content = resp[k].body
                   /\ resp[k].status = StatusOK
                   /\ Len(outfile'[k].content) >= getters[k].MinimumSize
          /\ Installed(outfile[k])
                => /\ Installed(outfile'[k])
                   /\ Len(outfile'[k].content) >= getters'[k].MinimumSize]_vars

\* an attempt has just replaced an installed two-byte body with a one-byte body
C10_Witness ==
    \E k \in Targets :
        /\ pc[k] = "renamed"
        /\ Installed(before[k])
        /\ Installed(outfile[k])
        /\ Len(before[k].content) = 2
        /\ Len(outfile[k].content) = 1
        /\ getters[k].MinimumSize = 1

(***************************************************************************)
(* C11: one attempt at a time for a target.                                *)
(***************************************************************************)
\* the timer of target k delivers a tick
TickStep(k) == ticker[k].on /\ ticker'[k].next # ticker[k].next

\* download of target k is between its eligibility check and its return
InAttempt(k) ==
    pc[k] \in {"url", "tempfile", "get", "copy", "close", "rename", "renamed",
               "defer_ok", "defer_err", "succeeded", "failed", "report"}

\* C11: an attempt of a target starts only when no attempt of that target is
\* under way (none begun and not yet returned, no temporary file, no response
\* held); a tick that arrives during an attempt leaves the attempt as it is and
\* is only buffered, and the next eligibility check happens after the running
\* attempt has returned.
C11_OneAttemptAtATime ==
    [][\A k \in Targets :
          /\ (pc'[k] = "url" /\ pc[k] # "url")
                => /\ ~InAttempt(k)
                   /\ began[k] = ZeroTime
                   /\ tempfile[k] = NoFile
                   /\ resp[k] = NoResponse
          /\ (TickStep(k) /\ InAttempt(k))
                => /\ pc'[k] = pc[k]
                   /\ began'[k] = began[k]
                   /\ tempfile'[k] = tempfile[k]
                   /\ resp'[k] = resp[k]
                   /\ getters'[k] = getters[k]
                   /\ ticker'[k].buf = 1
          /\ (pc'[k] = "download" /\ pc[k] # "download")
                => ~InAttempt(k)]_vars

\* a tick is buffered while a body is being copied in an attempt that itself
\* started on a tick
C11_Witness ==
    \E k \in Targets :
        /\ pc[k] = "copy"
        /\ ticker[k].on
        /\ ticker[k].buf = 1
        /\ began[k] >= boot + Minute
        /\ Len(tempfile[k].content) > 0

(***************************************************************************)
(* C14: the output file found at startup seeds lastSuccess.                *)
(***************************************************************************)
\* setup of target k returns nil
SetupStep(k) == k \notin ready /\ k \in ready'

\* download of target k evaluates should(time.Now())
CheckStep(k) == pc[k] = "download" /\ pc'[k] # "download"

\* C14: setup leaves lastSuccess at the modification time m of the output file
\* it finds, and zero when it finds none; a target that had an output file at
\* startup begins no attempt, at the first evaluation or at any tick, before
\* m + ttl; a target that had none passes the ttl rule at once, so that its
\* first evaluation starts an attempt exactly when the window and the weekdays
\* allow it.
C14_StartupFileSeedsLastSuccess ==
    [][\A k \in Targets :
          /\ SetupStep(k)
                => /\ outfile[k] = startup[k]
                   /\ getters'[k].lastSuccess =
                         IF startup[k].exists THEN startup[k].mtime ELSE ZeroTime
                   /\ ~startup[k].exists
                         => Sub(now, getters'[k].lastSuccess) >= getters'[k].ttl
          /\ (CheckStep(k) /\ pc'[k] = "url" /\ startup[k].exists)
                => now >= startup[k].mtime + getters[k].ttl
          /\ (CheckStep(k) /\ ~ticker[k].on /\ ~startup[k].exists)
                => (pc'[k] = "url" <=> /\ RuleNotBefore(getters[k], now)
                                       /\ RuleNotAfter(getters[k], now)
                                       /\ RuleWeekday(getters[k], now))]_vars

\* a target whose output file existed at startup, refused at the first
\* evaluation, begins its first attempt on a tick, at least ttl after the
\* file's modification time
C14_Witness ==
    \E k \in Targets :
        /\ pc[k] = "url"
        /\ startup[k].exists
        /\ getters[k].lastSuccess = startup[k].mtime
        /\ boot - startup[k].mtime < getters[k].ttl
        /\ ticker[k].on
        /\ now >= startup[k].mtime + getters[k].ttl

(***************************************************************************)
(* C15: no temporary file outlives the attempt that created it.            *)
(***************************************************************************)
\* trydownload of target k holds a temporary file it has yet to rename or remove
HoldsTempFile(k) == pc[k] \in {"get", "copy", "close", "rename", "defer_err"}

NextAttemptStep(k) == CheckStep(k) /\ pc'[k] = "url" /\ ~IsZero(started[k])

\* C16 as stated: the starts of two consecutive attempts of a target are at
\* least one tick interval apart.
C16_AttemptsAMinuteApart ==
    [][\A k \in Targets : NextAttemptStep(k) => now - started[k] >= Minute]_vars

\* run of target k calls download
CallStep(k) == pc'[k] = "download" /\ pc[k] # "download"

\* C16 (amended): after the evaluation at its start, run calls download only on
\* receiving a tick; ticks fall due one tick interval apart, at most one waits
\* in the channel, a tick is received no earlier than it fell due, and two
\* ticks received one after the other fell due at least one tick interval
\* apart.  The attempts themselves may start less than a tick interval apart,
\* when the earlier one started late on a tick that had waited in the channel.
C16_AttemptsOnlyOnTicks ==
    [][\A k \in Targets :
          /\ CallStep(k)
                => \/ pc[k] = "new" /\ ~ticker[k].on
                   \/ /\ pc[k] = "recv"
                      /\ ticker[k].buf = 1
                      /\ ticker'[k].buf = 0
                      /\ ticker'[k].got = ticker[k].due
                      /\ ticker'[k].got >= ticker[k].got + Minute
                      /\ now >= ticker'[k].got
          /\ TickStep(k)
                => /\ ticker'[k].next = ticker[k].next + Minute
                   /\ ticker'[k].buf = 1
                   /\ ticker[k].buf = 1 => ticker'[k].due = ticker[k].due
          /\ NextAttemptStep(k)
                => /\ ticker[k].on
                   /\ now >= ticker[k].got
                   /\ ticker[k].got >= boot + Minute]_vars

\* download is about to retry a failed attempt on a tick it received when the
\* tick fell due, less than a tick interval after that attempt began
C16_Witness ==
    \E k \in Targets :
        /\ pc[k] = "download"
        /\ should(getters[k], now)
        /\ streak[k].n >= 2
        /\ ticker[k].got = now
        /\ ~IsZero(started[k])
        /\ now - started[k] < Minute
        /\ mainpc = "running"

(***************************************************************************)
(* C17: the first evaluation does not wait for a tick.                     *)
(***************************************************************************)
\* C17: the first thing a target's task does is call download, before its
\* ticker exists; that evaluation begins an attempt exactly when should allows
\* it, and the ticker is created only when that download has returned, so an
\* attempt can begin at the very time the process started.
C17_FirstEvaluationAtOnce ==
    [][\A k \in Targets :
          /\ (pc[k] = "new" /\ pc'[k] # "new")
                => /\ pc'[k] = "download"
                   /\ ~ticker'[k].on
                   /\ IsZero(started'[k])
          /\ (CheckStep(k) /\ ~ticker[k].on)
                => /\ IsZero(started[k])
                   /\ pc'[k] = "url" <=> should(getters[k], now)
                   /\ pc'[k] # "url" => pc'[k] = "newticker"
          /\ (~ticker[k].on /\ ticker'[k].on)
                => /\ pc[k] = "newticker"
                   /\ ticker'[k].buf = 0
                   /\ ticker'[k].next = now + Minute]_vars

\* the first attempt of a target is under way at the time the process started,
\* its ticker not yet created
C17_Witness ==
    \E k \in Targets :
        /\ pc[k] = "get"
        /\ ~ticker[k].on
        /\ began[k] = boot
        /\ now = boot
        /\ streak[k].n = 0

(***************************************************************************)
(* C19: an evaluation that finds the target not eligible changes nothing.  *)
(***************************************************************************)
\* C19: when download finds should false it returns to run's loop and nothing
\* else changes: no temporary file, no response, and the target's fields
\* (lastSuccess and failSince among them), its output file, its gauge and its
\* failure streak are as they were; so the gauge of a target that left its
\* window during a failure streak keeps the value of the last report.
C19_IneligibleTickChangesNothing ==
    [][\A k \in Targets :
          (CheckStep(k) /\ pc'[k] # "url")
             => /\ ~should(getters[k], now)
                /\ pc'[k] \in {"newticker", "recv"}
                /\ getters'[k] = getters[k]
                /\ outfile'[k] = outfile[k]
                /\ failGaugeVec'[k] = failGaugeVec[k]
                /\ tempfile'[k] = NoFile /\ tempfile[k] = NoFile
                /\ resp'[k] = NoResponse /\ resp[k] = NoResponse
                /\ err'[k] = "nil"
                /\ streak'[k] = streak[k]
                /\ started'[k] = started[k]]_vars

\* a target whose attempt failed inside its window has evaluated a later tick
\* outside the window: failSince is still set and the gauge still above zero
C19_Witness ==
    \E k \in Targets :
        /\ pc[k] = "recv"
        /\ streak[k].n >= 1
        /\ ~IsZero(getters[k].failSince)
        /\ failGaugeVec[k] >= 1
        /\ ticker[k].got > started[k]
        /\ ticker[k].buf = 0
        /\ ~RuleNotAfter(getters[k], now)
        /\ RuleNotAfter(getters[k], started[k])

(***************************************************************************)
(* C20: a window with NotBefore later than NotAfter.                       *)
(***************************************************************************)
\* g's NotBefore names a later time of day than its NotAfter
Wraps(g) ==
    /\ ParseHHMM(g.NotBefore).ok
    /\ ParseHHMM(g.NotAfter).ok
    /\ ParseHHMM(g.NotBefore).t > ParseHHMM(g.NotAfter).t

\* times of every hour of every day of the week
EveryHour == {At(d, h, m) + x : d \in 0..6, h \in 0..23, m \in {0, 59}, x \in {0, 1}}

\* C20: setup does not refuse a target whose NotBefore is later than its
\* NotAfter; once set up, should is false of it at times in every hour of every
\* day, every evaluation of download returns without an attempt, and the
\* target's output file, lastSuccess and gauge stay as setup left them.
C20_WrappingWindowNeverEligible ==
    [][\A k \in Targets :
          Wraps(getters[k])
             => /\ ~setupFails(getters[k], now)
                /\ mainpc' # "fatal"
                /\ k \in ready'
                      => /\ Wraps(getters'[k])
                         /\ \A t \in EveryHour : ~should(getters'[k], t)
                /\ CheckStep(k) => pc'[k] \in {"newticker", "recv"}
                /\ pc'[k] # "url"
                /\ outfile'[k] = startup[k]
                /\ failGaugeVec'[k] = 0
                /\ k \in ready => getters'[k].lastSuccess = getters[k].lastSuccess]_vars

\* a target with the window 22:00 to 6:00 and a ttl of zero has been set up and
\* has returned from an evaluation late in the evening without an attempt
C20_Witness ==
    \E k \in Targets :
        /\ Wraps(getters[k])
        /\ k \in ready
        /\ getters[k].ttl = 0
        /\ getters[k].NotAfter = <<"0", "6", ":", "0", "0">>
        /\ pc[k] = "newticker"
        /\ HourOf(now) = 23
        /\ mainpc = "running"

(***************************************************************************)
(* C12: a target's task touches no other target's state.                   *)
(***************************************************************************)
\* the step is one of the task of target j
TaskStep(j) == pc'[j] # pc[j] \/ tempfile'[j] # tempfile[j]

\* lastSuccess, failSince, the gauge and the output file of target k
Owned(k) ==
    <<getters[k].lastSuccess, getters[k].failSince, failGaugeVec[k], outfile[k]>>

\* C12: with two targets running under every interleaving, a step of one
\* target's task leaves the other target's lastSuccess, failSince, gauge and
\* output file as they were, and once a target is set up these four change only
\* in steps of its own task.
C12_TargetsDoNotInterfere ==
    [][\A j, k \in Targets :
          /\ (j # k /\ TaskStep(j))
                => /\ Owned(k)' = Owned(k)
                   /\ ~TaskStep(k)
                   /\ getters'[k] = getters[k]
                   /\ resp'[k] = resp[k]
          /\ (k \in ready /\ Owned(k)' # Owned(k)) => TaskStep(k)]_vars

\* one target has just installed a body while the other, having reported a
\* failure, has its own failSince and gauge and no output file
C12_Witness ==
    \E j, k \in Targets :
        /\ j # k
        /\ pc[j] = "renamed"
        /\ outfile[j].exists
        /\ pc[k] \in {"newticker", "recv"}
        /\ ~IsZero(getters[k].failSince)
        /\ failGaugeVec[k] >= 1
        /\ ~outfile[k].exists
        /\ IsZero(getters[j].failSince)

(***************************************************************************)
(* C13: a target that setup refuses stops the whole process.               *)
(***************************************************************************)
\* no task of any target has started and nothing has been fetched
NothingStarted ==
    \A j \in Targets :
        /\ pc[j] = "new"
        /\ IsZero(started[j])
        /\ ~ticker[j].on
        /\ outfile[j] = startup[j]
        /\ tempfile[j] = NoFile
        /\ resp[j] = NoResponse

\* C13: when the configuration holds a target that setup refuses (a URL
\* template that does not parse, a URL without a scheme, a NotBefore, NotAfter
\* or TTL that does not parse), no task is ever started and nothing is fetched,
\* for that target or for any other; the setup of that target ends the process
\* (log.Fatal), it is never counted as set up, and the process ends that way
\* only for such a target.
C13_MalformedTargetAbortsStartup ==
    [][/\ \A k \in Targets :
             getters[k] \in Malformed
                => /\ setupFails(getters[k], now)
                   /\ k \notin ready'
                   /\ NothingStarted'
                   /\ ready' # Targets
                   /\ (mainpc = "running" /\ ready' = ready /\ now' = now
                         /\ mainpc' # "crashed") => mainpc' = "fatal"
       /\ mainpc' = "fatal" => \E k \in Targets : getters[k] \in Malformed]_vars

\* the process has ended in log.Fatal on a malformed target after the setup of
\* a well-formed target had returned nil; the well-formed target never ran
C13_Witness ==
    \E j, k \in Targets :
        /\ mainpc = "fatal"
        /\ getters[k] \in Malformed
        /\ j \in ready
        /\ pc[j] = "new"
        /\ failGaugeVec[j] = 0
        /\ ~outfile[j].exists

(***************************************************************************)
(* C18: a target waiting on the network does not hold up the other.        *)
(***************************************************************************)
\* C18: whatever the task of "/tmp/a" does, waiting for ever in http.Get
\* included, under fair scheduling of main, the timer and the task of "/tmp/b"
\* (and unless the process ends) the task of "/tmp/b" is started once both
\* targets are set up, every attempt of "/tmp/b" returns, and every tick
\* waiting in its channel is received and followed by an evaluation.
C18_OtherTargetKeepsRunning ==
    /\ (pc["/tmp/b"] = "new" /\ ready = Targets)
          ~> (pc["/tmp/b"] # "new" \/ ~Alive)
    /\ InAttempt("/tmp/b") ~> (~InAttempt("/tmp/b") \/ ~Alive)
    /\ (ticker["/tmp/b"].buf = 1 /\ pc["/tmp/b"] = "recv")
          ~> (pc["/tmp/b"] = "download" \/ ~Alive)
    /\ pc["/tmp/b"] = "download" ~> (pc["/tmp/b"] # "download" \/ ~Alive)

\* "/tmp/a" has been waiting in http.Get since the process started while
\* "/tmp/b" has received a tick and completed the attempt it began on it
C18_Witness ==
    /\ pc["/tmp/a"] = "get"
    /\ began["/tmp/a"] = boot
    /\ resp["/tmp/a"] = NoResponse
    /\ pc["/tmp/b"] = "recv"
    /\ ticker["/tmp/b"].got >= boot + Minute
    /\ started["/tmp/b"] >= ticker["/tmp/b"].got
    /\ now >= boot + Minute
    /\ mainpc = "running"

====
